---- MODULE Spec2Model ----
(***************************************************************************)
(* Model of skills/media-assistant/scripts/get_ffmpeg_path.py: the ordered *)
(* fallback lookup get_ffmpeg_path() and the command-line wrapper main().  *)
(*                                                                         *)
(* The environment (what importing imageio_ffmpeg does, what its           *)
(* get_ffmpeg_exe() does, what shutil.which("ffmpeg") answers) is chosen   *)
(* in Init and never changes.  Several callers run main() step by step,    *)
(* interleaved, and may call again after finishing.                        *)
(*                                                                         *)
(* Text that the program builds or that the properties search (messages)   *)
(* is a sequence of one-character strings, so that "contains" and          *)
(* "lower()" are computed.  Paths are opaque strings.                      *)
(***************************************************************************)
EXTENDS Integers, Sequences, FiniteSets

\* ------------------------------------------------------------------ bounds
\* number of concurrent callers
NumCallers == 2

\* total number of calls to main() started in one behaviour
MaxCalls == 3

Callers == 1..NumCallers

\* ------------------------------------------------------------ Python values
\* Python's None
None == "None"

\* the two non-empty paths the providers may answer
Paths == {"/fake/path/ffmpeg", "/usr/bin/ffmpeg"}

\* `if path is not None:` in place of `if path:`
Truthy_NotNone(v) == v /= None

\* truth value of a str-or-None, as tested by `if path:` / `if system_ffmpeg:`
Truthy(v) == v /= None /\ v /= ""

\* an exception instance: its class and str(e)
Exc(type, msg) == [type |-> type, msg |-> msg]

NoExc == Exc("", <<>>)

\* the part of the built-in exception hierarchy the program meets
Bases(cls) ==
    CASE cls = "ModuleNotFoundError" -> {"ModuleNotFoundError", "ImportError", "Exception"}
      [] cls = "ImportError"         -> {"ImportError", "Exception"}
      [] cls = "RuntimeError"        -> {"RuntimeError", "Exception"}
      [] cls = "OSError"             -> {"OSError", "Exception"}
      [] OTHER                       -> {}

\* a handler that matches the exact class only, not its subclasses
Catches_ExactClass(handler, e) == handler = e.type

\* does `except handler:` catch e
Catches(handler, e) == handler \in Bases(e.type)

\* ------------------------------------------------------------------- text
IsSubstring(sub, s) ==
    \E i \in 1..(Len(s) - Len(sub) + 1) : SubSeq(s, i, i + Len(sub) - 1) = sub

UpperAlpha ==
    << "A", "B", "C", "D", "E", "F", "G", "H", "I", "J", "K", "L", "M",
       "N", "O", "P", "Q", "R", "S", "T", "U", "V", "W", "X", "Y", "Z" >>

LowerAlpha ==
    << "a", "b", "c", "d", "e", "f", "g", "h", "i", "j", "k", "l", "m",
       "n", "o", "p", "q", "r", "s", "t", "u", "v", "w", "x", "y", "z" >>

LowerChar(ch) ==
    IF \E i \in 1..26 : UpperAlpha[i] = ch
    THEN LowerAlpha[CHOOSE i \in 1..26 : UpperAlpha[i] = ch]
    ELSE ch

\* str.lower()
Lower(s) == [i \in 1..Len(s) |-> LowerChar(s[i])]

\* the message of the RuntimeError raised at the end of get_ffmpeg_path()
NotFoundMsg ==
    <<
       "F", "F", "m", "p", "e", "g", " ", "n", "o", "t", " ", "f",
       "o", "u", "n", "d", ".", " ", "I", "n", "s", "t", "a", "l",
       "l", " ", "w", "i", "t", "h", ":", " ", "p", "i", "p", " ",
       "i", "n", "s", "t", "a", "l", "l", " ", "i", "m", "a", "g",
       "e", "i", "o", "-", "f", "f", "m", "p", "e", "g", "\n", "O",
       "r", " ", "i", "n", "s", "t", "a", "l", "l", " ", "f", "f",
       "m", "p", "e", "g", " ", "s", "y", "s", "t", "e", "m", "-",
       "w", "i", "d", "e", ":", " ", "h", "t", "t", "p", "s", ":",
       "/", "/", "f", "f", "m", "p", "e", "g", ".", "o", "r", "g",
       "/", "d", "o", "w", "n", "l", "o", "a", "d", ".", "h", "t",
       "m", "l" >>

\* the error raised when both strategies are exhausted
NotFoundError == Exc("RuntimeError", NotFoundMsg)

\* "pip install imageio-ffmpeg"
InstallHint ==
    <<
       "p", "i", "p", " ", "i", "n", "s", "t", "a", "l", "l", " ",
       "i", "m", "a", "g", "e", "i", "o", "-", "f", "f", "m", "p",
       "e", "g" >>

\* "ffmpeg"
ExeName ==
    <<
       "f", "f", "m", "p", "e", "g" >>

\* "https://ffmpeg.org/download.html"
ManualUrl ==
    <<
       "h", "t", "t", "p", "s", ":", "/", "/", "f", "f", "m", "p",
       "e", "g", ".", "o", "r", "g", "/", "d", "o", "w", "n", "l",
       "o", "a", "d", ".", "h", "t", "m", "l" >>

\* ------------------------------------------------------------ environment
\* "No module named 'imageio_ffmpeg'"
NoModuleMsg ==
    <<
       "N", "o", " ", "m", "o", "d", "u", "l", "e", " ", "n", "a",
       "m", "e", "d", " ", "'", "i", "m", "a", "g", "e", "i", "o",
       "_", "f", "f", "m", "p", "e", "g", "'" >>

\* "No ffmpeg exe could be found."
NoExeMsg ==
    <<
       "N", "o", " ", "f", "f", "m", "p", "e", "g", " ", "e", "x",
       "e", " ", "c", "o", "u", "l", "d", " ", "b", "e", " ", "f",
       "o", "u", "n", "d", "." >>

\* "Exec format error"
OsErrMsg ==
    <<
       "E", "x", "e", "c", " ", "f", "o", "r", "m", "a", "t", " ",
       "e", "r", "r", "o", "r" >>

\* what `from imageio_ffmpeg import get_ffmpeg_exe` can raise
ImportErrors ==
    { Exc("ImportError", NoModuleMsg), Exc("ModuleNotFoundError", NoModuleMsg) }

\* what a call of get_ffmpeg_exe() can raise
ExeErrors ==
    { Exc("ImportError", NoModuleMsg), Exc("RuntimeError", NoExeMsg),
      Exc("OSError", OsErrMsg) }

\* what a call of get_ffmpeg_exe() can return
ExeValues == Paths \cup {"", None}

\* the provider: the import fails with import_exc, or it succeeds and
\* get_ffmpeg_exe() returns value (exe_exc = NoExc) or raises exe_exc
Provider(import_exc, value, exe_exc) ==
    [import_exc |-> import_exc, value |-> value, exe_exc |-> exe_exc]

Providers ==
    { Provider(e, None, NoExc) : e \in ImportErrors }
    \cup { Provider(NoExc, v, NoExc) : v \in ExeValues }
    \cup { Provider(NoExc, None, e) : e \in ExeErrors }

\* what shutil.which("ffmpeg") can return: a path or None
WhichValues == Paths \cup {None}

\* ------------------------------------------------------------------ state
VARIABLES
    imageio_ffmpeg,  \* environment: the provider
    which,           \* environment: the answer of shutil.which("ffmpeg")
    pc,              \* per caller: position in main() / get_ffmpeg_path()
    path,            \* per caller: local `path` of get_ffmpeg_path()
    system_ffmpeg,   \* per caller: local `system_ffmpeg`
    queried,         \* per caller: the strategies queried by this call, in order
    result,          \* per caller: how get_ffmpeg_path() ended
    stdout,          \* per caller: lines written to sys.stdout
    stderr,          \* per caller: lines written to sys.stderr
    exit,            \* per caller: value returned by main()
    outcomes,        \* every outcome get_ffmpeg_path() has had so far
    ncalls           \* calls of main() started so far

vars ==
    << imageio_ffmpeg, which, pc, path, system_ffmpeg, queried, result,
       stdout, stderr, exit, outcomes, ncalls >>

\* main() has not returned
NoExit == -1

\* outcome of get_ffmpeg_path(): not finished, returned val, or raised exc
Pending == [kind |-> "pending", val |-> None, exc |-> NoExc]

Returned(v) == [kind |-> "return", val |-> v, exc |-> NoExc]

Raised(e) == [kind |-> "raise", val |-> None, exc |-> e]

Init ==
    /\ imageio_ffmpeg \in Providers
    /\ which \in WhichValues
    /\ pc = [c \in Callers |-> "idle"]
    /\ path = [c \in Callers |-> None]
    /\ system_ffmpeg = [c \in Callers |-> None]
    /\ queried = [c \in Callers |-> <<>>]
    /\ result = [c \in Callers |-> Pending]
    /\ stdout = [c \in Callers |-> <<>>]
    /\ stderr = [c \in Callers |-> <<>>]
    /\ exit = [c \in Callers |-> NoExit]
    /\ outcomes = {}
    /\ ncalls = 0

\* ---------------------------------------------------------------- actions
\* get_ffmpeg_path() ends for caller c with outcome r; main() goes on at next
Finish(c, r, next) ==
    /\ result' = [result EXCEPT ![c] = r]
    /\ outcomes' = outcomes \cup {r}
    /\ pc' = [pc EXCEPT ![c] = next]

\* get_ffmpeg_path() of caller c goes on at next
Goto(c, next) ==
    /\ pc' = [pc EXCEPT ![c] = next]
    /\ UNCHANGED << result, outcomes >>

\* the system lookup is placed before the provider block
CallMain_WhichFirst(c) ==
    /\ pc[c] = "idle"
    /\ ncalls < MaxCalls
    /\ ncalls' = ncalls + 1
    /\ pc' = [pc EXCEPT ![c] = "which"]
    /\ UNCHANGED << imageio_ffmpeg, which, path, system_ffmpeg, queried,
                    result, stdout, stderr, exit, outcomes >>

\* main() is entered and calls get_ffmpeg_path()
CallMain(c) ==
    /\ pc[c] = "idle"
    /\ ncalls < MaxCalls
    /\ ncalls' = ncalls + 1
    /\ pc' = [pc EXCEPT ![c] = "import"]
    /\ UNCHANGED << imageio_ffmpeg, which, path, system_ffmpeg, queried,
                    result, stdout, stderr, exit, outcomes >>

\* a module-level "already tried" flag: only the first call asks the provider
ImportProvider_TriedFlag(c) ==
    /\ pc[c] = "import"
    /\ queried' = [queried EXCEPT ![c] = Append(@, "provider")]
    /\ IF imageio_ffmpeg.import_exc = NoExc /\ outcomes = {}
       THEN Goto(c, "get_ffmpeg_exe")
       ELSE IF imageio_ffmpeg.import_exc = NoExc
               \/ Catches("ImportError", imageio_ffmpeg.import_exc)
            THEN Goto(c, "which")
            ELSE Finish(c, Raised(imageio_ffmpeg.import_exc), "raised")
    /\ UNCHANGED << imageio_ffmpeg, which, path, system_ffmpeg, stdout,
                    stderr, exit, ncalls >>

\* try: from imageio_ffmpeg import get_ffmpeg_exe ... except ImportError: pass
ImportProvider(c) ==
    /\ pc[c] = "import"
    /\ queried' = [queried EXCEPT ![c] = Append(@, "provider")]
    /\ IF imageio_ffmpeg.import_exc = NoExc
       THEN Goto(c, "get_ffmpeg_exe")
       ELSE IF Catches("ImportError", imageio_ffmpeg.import_exc)
            THEN Goto(c, "which")
            ELSE Finish(c, Raised(imageio_ffmpeg.import_exc), "raised")
    /\ UNCHANGED << imageio_ffmpeg, which, path, system_ffmpeg, stdout,
                    stderr, exit, ncalls >>

\* the early `return path` is missing: the system lookup always decides
CallGetFfmpegExe_NoEarlyReturn(c) ==
    /\ pc[c] = "get_ffmpeg_exe"
    /\ IF imageio_ffmpeg.exe_exc = NoExc
       THEN /\ path' = [path EXCEPT ![c] = imageio_ffmpeg.value]
            /\ Goto(c, "which")
       ELSE /\ UNCHANGED path
            /\ IF Catches("ImportError", imageio_ffmpeg.exe_exc)
               THEN Goto(c, "which")
               ELSE Finish(c, Raised(imageio_ffmpeg.exe_exc), "raised")
    /\ UNCHANGED << imageio_ffmpeg, which, system_ffmpeg, queried, stdout,
                    stderr, exit, ncalls >>

\* path = get_ffmpeg_exe(); if path: return path   (inside the same try)
CallGetFfmpegExe(c) ==
    /\ pc[c] = "get_ffmpeg_exe"
    /\ IF imageio_ffmpeg.exe_exc = NoExc
       THEN /\ path' = [path EXCEPT ![c] = imageio_ffmpeg.value]
            /\ IF Truthy(imageio_ffmpeg.value)
               THEN Finish(c, Returned(imageio_ffmpeg.value), "returned")
               ELSE Goto(c, "which")
       ELSE /\ UNCHANGED path
            /\ IF Catches("ImportError", imageio_ffmpeg.exe_exc)
               THEN Goto(c, "which")
               ELSE Finish(c, Raised(imageio_ffmpeg.exe_exc), "raised")
    /\ UNCHANGED << imageio_ffmpeg, which, system_ffmpeg, queried, stdout,
                    stderr, exit, ncalls >>

\* `return shutil.which("ffmpeg")` without the test and without the raise
SystemLookup_NoRaise(c) ==
    /\ pc[c] = "which"
    /\ queried' = [queried EXCEPT ![c] = Append(@, "which")]
    /\ system_ffmpeg' = [system_ffmpeg EXCEPT ![c] = which]
    /\ Finish(c, Returned(which), "returned")
    /\ UNCHANGED << imageio_ffmpeg, which, path, stdout, stderr, exit, ncalls >>

\* system_ffmpeg = shutil.which("ffmpeg"); return it, or raise RuntimeError
SystemLookup(c) ==
    /\ pc[c] = "which"
    /\ queried' = [queried EXCEPT ![c] = Append(@, "which")]
    /\ system_ffmpeg' = [system_ffmpeg EXCEPT ![c] = which]
    /\ IF Truthy(which)
       THEN Finish(c, Returned(which), "returned")
       ELSE Finish(c, Raised(NotFoundError), "raised")
    /\ UNCHANGED << imageio_ffmpeg, which, path, stdout, stderr, exit, ncalls >>

\* the path goes to sys.stderr instead of sys.stdout
MainReturn_ToStderr(c) ==
    /\ pc[c] = "returned"
    /\ stderr' = [stderr EXCEPT ![c] = Append(@, <<result[c].val>>)]
    /\ exit' = [exit EXCEPT ![c] = 0]
    /\ pc' = [pc EXCEPT ![c] = "exit"]
    /\ UNCHANGED << imageio_ffmpeg, which, path, system_ffmpeg, queried,
                    result, stdout, outcomes, ncalls >>

\* main(): print(path); return 0
MainReturn(c) ==
    /\ pc[c] = "returned"
    /\ stdout' = [stdout EXCEPT ![c] = Append(@, result[c].val)]
    /\ exit' = [exit EXCEPT ![c] = 0]
    /\ pc' = [pc EXCEPT ![c] = "exit"]
    /\ UNCHANGED << imageio_ffmpeg, which, path, system_ffmpeg, queried,
                    result, stderr, outcomes, ncalls >>

\* main(): except RuntimeError as e: print(str(e), file=sys.stderr); return 1
\* any other exception leaves main() uncaught
MainExcept(c) ==
    /\ pc[c] = "raised"
    /\ IF Catches("RuntimeError", result[c].exc)
       THEN /\ stderr' = [stderr EXCEPT ![c] = Append(@, result[c].exc.msg)]
            /\ exit' = [exit EXCEPT ![c] = 1]
            /\ pc' = [pc EXCEPT ![c] = "exit"]
       ELSE /\ pc' = [pc EXCEPT ![c] = "uncaught"]
            /\ UNCHANGED << stderr, exit >>
    /\ UNCHANGED << imageio_ffmpeg, which, path, system_ffmpeg, queried,
                    result, stdout, outcomes, ncalls >>

\* sys.exit(main()): the run is over; the caller may run the script again
SysExit(c) ==
    /\ pc[c] \in {"exit", "uncaught"}
    /\ pc' = [pc EXCEPT ![c] = "idle"]
    /\ path' = [path EXCEPT ![c] = None]
    /\ system_ffmpeg' = [system_ffmpeg EXCEPT ![c] = None]
    /\ queried' = [queried EXCEPT ![c] = <<>>]
    /\ result' = [result EXCEPT ![c] = Pending]
    /\ stdout' = [stdout EXCEPT ![c] = <<>>]
    /\ stderr' = [stderr EXCEPT ![c] = <<>>]
    /\ exit' = [exit EXCEPT ![c] = NoExit]
    /\ UNCHANGED << imageio_ffmpeg, which, outcomes, ncalls >>

Next ==
    \E c \in Callers :
        \/ CallMain(c)
        \/ ImportProvider(c)
        \/ CallGetFfmpegExe(c)
        \/ SystemLookup(c)
        \/ MainReturn(c)
        \/ MainExcept(c)
        \/ SysExit(c)

Spec == Init /\ [][Next]_vars

TypeOK ==
    /\ imageio_ffmpeg \in Providers
    /\ which \in WhichValues
    /\ pc \in [Callers -> {"idle", "import", "get_ffmpeg_exe", "which",
                           "returned", "raised", "exit", "uncaught"}]
    /\ \A c \in Callers : exit[c] \in {NoExit, 0, 1}
    /\ ncalls \in 0..MaxCalls

\* ------------------------------------------------------------- properties
\* get_ffmpeg_path() of caller c has ended
Done(c) == result[c].kind /= "pending"

\* the import of the provider fails with an ImportError
ImportFails ==
    /\ imageio_ffmpeg.import_exc /= NoExc
    /\ "ImportError" \in Bases(imageio_ffmpeg.import_exc.type)

\* the provider is importable and get_ffmpeg_exe() returns a non-empty path
ProviderYields ==
    /\ imageio_ffmpeg.import_exc = NoExc
    /\ imageio_ffmpeg.exe_exc = NoExc
    /\ imageio_ffmpeg.value \in Paths

\* the provider is importable and get_ffmpeg_exe() returns "" or None
ProviderFalsy ==
    /\ imageio_ffmpeg.import_exc = NoExc
    /\ imageio_ffmpeg.exe_exc = NoExc
    /\ imageio_ffmpeg.value \in {"", None}

\* C1: when the provider is importable and get_ffmpeg_exe() returns a
\* non-empty path p, get_ffmpeg_path() returns exactly p, whatever
\* shutil.which("ffmpeg") would answer.
C1_ProviderPathReturned ==
    \A c \in Callers :
        (Done(c) /\ ProviderYields) => result[c] = Returned(imageio_ffmpeg.value)

C1_Witness ==
    \E c \in Callers :
        /\ Done(c)
        /\ ProviderYields
        /\ which \in Paths
        /\ which /= imageio_ffmpeg.value

\* C2: when importing the provider raises ImportError and shutil.which
\* resolves "ffmpeg" to a non-empty path q, get_ffmpeg_path() returns
\* exactly q.
C2_SystemPathReturned ==
    \A c \in Callers :
        (Done(c) /\ ImportFails /\ which \in Paths) => result[c] = Returned(which)

C2_Witness ==
    \E c \in Callers :
        /\ Done(c)
        /\ imageio_ffmpeg.import_exc.type = "ModuleNotFoundError"
        /\ which \in Paths

\* C3: when neither the provider nor the OS search yields a path,
\* get_ffmpeg_path() raises the not-found RuntimeError, whose message
\* contains "pip install imageio-ffmpeg", "ffmpeg" (case-insensitive) and
\* the upstream download URL.
C3_NotFoundRaised ==
    \A c \in Callers :
        (Done(c) /\ ~ProviderYields /\ which = None) =>
            /\ result[c].kind = "raise"
            /\ result[c].exc.type = "RuntimeError"
            /\ IsSubstring(InstallHint, result[c].exc.msg)
            /\ IsSubstring(ExeName, Lower(result[c].exc.msg))
            /\ IsSubstring(ManualUrl, result[c].exc.msg)

\* C4: within one call the provider is queried first and the OS search
\* second, and the OS search is not queried once the provider has produced
\* a non-empty path.
C4_FixedOrderEarlyExit ==
    \A c \in Callers :
        /\ queried[c] \in {<<>>, <<"provider">>, <<"provider", "which">>}
        /\ (ProviderYields /\ Done(c)) => queried[c] = <<"provider">>
        /\ Truthy(path[c]) => queried[c] = <<"provider">>

C4_Witness ==
    \E c \in Callers :
        /\ Done(c)
        /\ ProviderYields
        /\ which \in Paths
        /\ queried[c] = <<"provider">>

\* C5: get_ffmpeg_path() fails only with the not-found error and only after
\* both strategies were exhausted; a provider that fails never makes the
\* call fail by itself and never prevents the OS search.
C5_OnlyNotFoundAfterBoth ==
    \A c \in Callers :
        /\ result[c].kind = "raise" =>
              /\ result[c].exc = NotFoundError
              /\ queried[c] = <<"provider", "which">>
              /\ ~Truthy(path[c])
              /\ ~Truthy(system_ffmpeg[c])
        /\ (Done(c) /\ ~ProviderYields) => queried[c] = <<"provider", "which">>

\* the outcome decided by the OS search alone
FallbackOutcome == IF which \in Paths THEN Returned(which) ELSE Raised(NotFoundError)

\* C6: a provider that is installed but returns an empty or falsy path has
\* the same outcome as a provider that is not installed: the OS-resolved
\* path if there is one, otherwise the not-found error.
C6_FalsyLikeAbsent ==
    \A c \in Callers :
        (Done(c) /\ (ProviderFalsy \/ ImportFails)) =>
            /\ result[c] = FallbackOutcome
            /\ queried[c] = <<"provider", "which">>

C6_Witness ==
    \E c \in Callers :
        /\ Done(c)
        /\ ProviderFalsy
        /\ imageio_ffmpeg.value = ""
        /\ which \in Paths

\* C7: a value returned by get_ffmpeg_path() is a non-empty path, never ""
\* or None; when the OS search was the last strategy and found nothing the
\* call raises instead of returning.
C7_ReturnedPathNonEmpty ==
    \A c \in Callers :
        /\ result[c].kind = "return" =>
              /\ result[c].val /= ""
              /\ result[c].val /= None
              /\ result[c].val \in Paths
        /\ (Done(c) /\ queried[c] = <<"provider", "which">> /\ which = None) =>
              result[c].kind = "raise"

C7_Witness ==
    /\ ProviderFalsy
    /\ \E c1, c2 \in Callers :
          /\ c1 /= c2
          /\ result[c1].kind = "return"
          /\ result[c2].kind = "return"

\* main() of caller c has ended, by returning or by an uncaught exception
MainEnded(c) == pc[c] \in {"exit", "uncaught"}

\* C8: when get_ffmpeg_path() returns p, main() writes p and nothing else
\* to standard output, nothing to standard error, and returns 0.
C8_SuccessWritesPathExitsZero ==
    \A c \in Callers :
        /\ (MainEnded(c) /\ result[c].kind = "return") =>
              /\ pc[c] = "exit"
              /\ stdout[c] = << result[c].val >>
              /\ stderr[c] = <<>>
              /\ exit[c] = 0
        /\ (~MainEnded(c) /\ result[c].kind = "return") =>
              /\ stdout[c] = <<>>
              /\ stderr[c] = <<>>

C8_Witness ==
    \E c \in Callers :
        /\ pc[c] = "exit"
        /\ result[c].kind = "return"
        /\ stdout[c] = << which >>
        /\ ImportFails

\* C9: when resolution fails, main() writes the not-found remediation
\* message to standard error, nothing to standard output, and returns 1;
\* main() never ends otherwise than by returning 0 or 1.
C9_FailureWritesMessageExitsOne ==
    \A c \in Callers :
        /\ (MainEnded(c) /\ result[c].kind = "raise") =>
              /\ stderr[c] = << NotFoundMsg >>
              /\ stdout[c] = <<>>
              /\ exit[c] = 1
        /\ MainEnded(c) => exit[c] \in {0, 1}

\* C10: in an unchanged environment every call of get_ffmpeg_path(),
\* repeated or interleaved with the calls of other callers, has the same
\* outcome.
C10_SameOutcomeEveryCall ==
    /\ \A o1, o2 \in outcomes : o1 = o2
    /\ \A c \in Callers : Done(c) => outcomes = {result[c]}

C10_Witness ==
    /\ ncalls >= 3
    /\ \A c \in Callers : Done(c)
    /\ ProviderYields
    /\ which \in Paths
    /\ which /= imageio_ffmpeg.value

====
